---- MODULE Spec2Model ----
(***************************************************************************)
(* A model of SEOChecker (src/seo_checker.py): the fetcher, the field      *)
(* extractors, the link sampler, the site-level checker and the            *)
(* orchestrator analyze_url / analyze_urls.                                *)
(*                                                                         *)
(* Data representation                                                     *)
(*  - A piece of text is [pad, len]: `len` characters of stripped text     *)
(*    surrounded by `pad` whitespace characters on each side, so that      *)
(*    str.strip() and len() are computed and not assumed.                  *)
(*  - A URL string is the record of its urlsplit parts                     *)
(*    [scheme, netloc, path, query, frag]; two URL strings are equal iff   *)
(*    their parts are.  An href is a URL string with its surrounding       *)
(*    whitespace (`pad`) and `attr`, whether the <a> carries an href       *)
(*    attribute at all.  Paths are absolute ("/a") or empty.               *)
(*  - A parsed document (soup) is the record of the elements the           *)
(*    extractors look at.  An optional element or attribute is a sequence  *)
(*    of length 0 or 1.                                                    *)
(*  - A result dict is a function from its keys to their values.           *)
(***************************************************************************)
EXTENDS Integers, Sequences, FiniteSets, TLC

VARIABLES
    urls,            \* analyze_urls: the input list
    idx,             \* analyze_urls: number of URLs already processed
    results,         \* analyze_urls: the list of results
    scores_data,     \* create_seo_score_chart: the list of score rows
    pc,              \* position inside analyze_urls / analyze_url
    clock,           \* datetime.now()
    result,          \* analyze_url: the result dict being built
    response,        \* fetch_page: what session.get produced
    page_data,       \* analyze_url: value returned by fetch_page
    soup,            \* analyze_url: the parsed document (mutable)
    links_arg,       \* check_broken_links: its argument links
    links_to_check,  \* check_broken_links: links[:20]
    probe_i,         \* check_broken_links: loop position
    broken_links,    \* check_broken_links: accumulated entries
    checked_links,   \* check_broken_links: counter
    robots_exists,   \* check_robots_and_sitemap: local flag
    requests,        \* every network request issued, in order
    probe_log,       \* analyze_url: the probes of this call and their outcomes
    content,         \* extraction stage under test: the fetched document
    base_url,        \* extraction stage under test: the page URL
    runs             \* extraction stage under test: outputs of the runs

vars == <<urls, idx, results, scores_data, pc, clock, result, response,
          page_data, soup, links_arg, links_to_check, probe_i, broken_links,
          checked_links, robots_exists, requests, probe_log,
          content, base_url, runs>>

pipeVars == <<urls, idx, results, scores_data, pc, clock, result, response,
              page_data, soup, links_arg, links_to_check, probe_i, broken_links,
              checked_links, robots_exists, requests, probe_log>>

stageVars == <<content, base_url, runs>>

---------------------------------------------------------------------------
(* Bounds of the model *)

MaxUrls == 2
MaxAnchors == 2
MaxImages == 2
MaxFailures == 2

(* Constants of the program *)

HTTP_OK == 200
TitleMin == 30
TitleMax == 60
MetaMin == 120
MetaMax == 160
MinWords == 300
SampleLimit == 20
BrokenFrom == 400

---------------------------------------------------------------------------
(* Generic helpers *)

Range(s) == {s[i] : i \in DOMAIN s}

Max(a, b) == IF a >= b THEN a ELSE b

RECURSIVE SumSeq(_)
SumSeq(s) == IF Len(s) = 0 THEN 0 ELSE Head(s) + SumSeq(Tail(s))

Prefix(s, n) == SubSeq(s, 1, IF Len(s) < n THEN Len(s) ELSE n)

\* dict.update: the keys of d override those of r
Update(r, d) == d @@ r

None == [none |-> TRUE]

\* list(xs): the duplicates kept
list_keep(xs) == {xs}

\* list(set(xs)): the iteration order of a set of strings is fixed by the
\* interpreter's per-process string hash seed, not by the program; every
\* arrangement of the distinct elements is a possible value.
list_set(xs) ==
    LET S == Range(xs)
        n == Cardinality(S)
    IN  {s \in [1..n -> S] : \A i, j \in 1..n : i # j => s[i] # s[j]}

---------------------------------------------------------------------------
(* Text *)

Text(p, n) == [pad |-> p, len |-> n]
EmptyText == Text(0, 0)

\* str.strip()
strip_text(t) == [t EXCEPT !.pad = 0]

\* len(str)
StrLen(t) == t.len + 2 * t.pad

---------------------------------------------------------------------------
(* URLs and hrefs: urllib.parse *)

Url(s, n, p, q, f) ==
    [scheme |-> s, netloc |-> n, path |-> p, query |-> q, frag |-> f]

Href(a, pd, s, n, p, q, f) ==
    [attr |-> a, pad |-> pd, scheme |-> s, netloc |-> n, path |-> p,
     query |-> q, frag |-> f]

\* href.strip()
strip_href(h) == [h EXCEPT !.pad = 0]

\* the string is "" (falsy)
IsEmptyStr(h) ==
    /\ h.pad = 0 /\ h.scheme = "" /\ h.netloc = ""
    /\ h.path = "" /\ h.query = "" /\ h.frag = ""

\* href.startswith('#')
startswith_hash(h) ==
    /\ h.pad = 0 /\ h.scheme = "" /\ h.netloc = ""
    /\ h.path = "" /\ h.query = "" /\ h.frag # ""

\* urlsplit raises ValueError("Invalid IPv6 URL") on an unbalanced bracket
\* in the netloc
InvalidNetloc(n) == n = "["

\* urljoin(base, url), for a stripped href
urljoin(base, h) ==
    IF h.scheme # "" THEN Url(h.scheme, h.netloc, h.path, h.query, h.frag)
    ELSE IF h.netloc # ""
        THEN Url(base.scheme, h.netloc, h.path, h.query, h.frag)
    ELSE IF h.path # ""
        THEN Url(base.scheme, base.netloc, h.path, h.query, h.frag)
    ELSE IF h.query # ""
        THEN Url(base.scheme, base.netloc, base.path, h.query, h.frag)
    ELSE Url(base.scheme, base.netloc, base.path, base.query, h.frag)

\* urldefrag(url)[0]
urldefrag(u) == [u EXCEPT !.frag = ""]

\* urlparse(url).netloc
netloc(u) == u.netloc

\* d in s, for the host names of the model
ProperSubstrings == {<<"site.test", "mysite.test">>}
IsSubstring(d, s) == d = s \/ <<d, s>> \in ProperSubstrings

\* base_domain in href
href_contains(h, d) ==
    IsSubstring(d, h.netloc) \/ IsSubstring(d, h.query) \/ IsSubstring(d, h.path)

---------------------------------------------------------------------------
(* Field extractors *)

\* soup.find(tag): the first matching element, or nothing
find(tags) == IF Len(tags) = 0 THEN <<>> ELSE <<Head(tags)>>

\* 30 < len(title) <= 60
title_optimal_exclusive(n) == TitleMin < n /\ n <= TitleMax

\* 30 <= len(title) <= 60
title_optimal(n) == TitleMin <= n /\ n <= TitleMax

extract_title(sp) ==
    LET title_tag == find(sp.title)
        title == IF Len(title_tag) > 0 THEN strip_text(title_tag[1].text)
                 ELSE EmptyText
    IN  [title |-> title,
         title_length |-> StrLen(title),
         title_exists |-> StrLen(title) > 0,
         title_optimal |-> title_optimal(StrLen(title))]

\* 120 <= len(description) <= 160
meta_description_optimal(n) == MetaMin <= n /\ n <= MetaMax

extract_meta_description(sp) ==
    LET meta_desc == find(sp.meta_description)
        description ==
            IF Len(meta_desc) > 0
            THEN (IF Len(meta_desc[1].content) > 0
                  THEN strip_text(meta_desc[1].content[1]) ELSE EmptyText)
            ELSE EmptyText
    IN  [meta_description |-> description,
         meta_description_length |-> StrLen(description),
         meta_description_exists |-> StrLen(description) > 0,
         meta_description_optimal |-> meta_description_optimal(StrLen(description))]

EmptyHref == Href(TRUE, 0, "", "", "", "", "")

extract_canonical_url(sp) ==
    LET canonical_tag == find(sp.canonical)
        canonical_url ==
            IF Len(canonical_tag) > 0
            THEN (IF Len(canonical_tag[1].href) > 0
                  THEN canonical_tag[1].href[1] ELSE EmptyHref)
            ELSE EmptyHref
    IN  [canonical_url |-> canonical_url,
         canonical_exists |-> ~IsEmptyStr(canonical_url)]

\* [tag.get_text().strip() for tag in h_tags]
heading_texts(h_tags) == [i \in DOMAIN h_tags |-> strip_text(h_tags[i])]

\* h1_count == 1
h1_optimal(h1_count) == h1_count = 1

extract_headings(sp) ==
    LET headings == [h1 |-> heading_texts(sp.headings.h1),
                     h2 |-> heading_texts(sp.headings.h2),
                     h3 |-> heading_texts(sp.headings.h3),
                     h4 |-> heading_texts(sp.headings.h4),
                     h5 |-> heading_texts(sp.headings.h5),
                     h6 |-> heading_texts(sp.headings.h6)]
        heading_counts == [h1_count |-> Len(sp.headings.h1),
                           h2_count |-> Len(sp.headings.h2),
                           h3_count |-> Len(sp.headings.h3),
                           h4_count |-> Len(sp.headings.h4),
                           h5_count |-> Len(sp.headings.h5),
                           h6_count |-> Len(sp.headings.h6)]
        h1_count == heading_counts.h1_count
    IN  [headings |-> headings,
         heading_counts |-> heading_counts,
         has_h1 |-> h1_count > 0,
         multiple_h1 |-> h1_count > 1,
         h1_optimal |-> h1_optimal(h1_count)]

\* for script in soup(["script", "style"]): script.decompose()
decompose_scripts(sp) == [sp EXCEPT !.scripts = <<>>]

\* len(text.split()) of soup.get_text(): the whitespace-delimited tokens of
\* all text nodes, the script/style elements still in the tree included
get_text_words(sp) == sp.words + SumSeq(sp.scripts)

\* word_count >= 300
content_length_optimal(word_count) == word_count >= MinWords

\* extract_word_count changes the tree it is given: .soup is the tree after
\* the call, .fields the returned dict
extract_word_count(sp) ==
    LET after == decompose_scripts(sp)
        word_count == get_text_words(after)
    IN  [soup |-> after,
         fields |-> [word_count |-> word_count,
                     content_length_optimal |-> content_length_optimal(word_count)]]

\* img.has_attr('alt')
has_attr_alt(img) == Len(img.alt) > 0

\* a variant that tests the alt text as written, without trimming it
alt_is_empty(img) == StrLen(img.alt[1]) = 0

\* not alt.strip(), for an image that has the attribute
alt_is_blank(img) == StrLen(strip_text(img.alt[1])) = 0

extract_images(sp) ==
    LET images == sp.images
        total_images == Len(images)
        images_without_alt ==
            Cardinality({i \in DOMAIN images : ~has_attr_alt(images[i])})
        images_with_empty_alt ==
            Cardinality({i \in DOMAIN images :
                            /\ has_attr_alt(images[i])
                            /\ alt_is_blank(images[i])})
    IN  [total_images |-> total_images,
         images_without_alt |-> images_without_alt,
         images_with_empty_alt |-> images_with_empty_alt,
         \* a quotient, kept as numerator and denominator
         images_alt_optimization |->
             [num |-> total_images - images_without_alt - images_with_empty_alt,
              den |-> Max(total_images, 1)]]

\* soup.find_all('a', href=True)
find_all_a_href(sp) == SelectSeq(sp.anchors, LAMBDA a : a.attr)

\* link_domain == base_domain
is_internal(clean_url, base) == netloc(clean_url) = netloc(base)

\* not href or href.startswith('#')
skip_href(href) == IsEmptyStr(href) \/ startswith_hash(href)

\* the for loop of extract_links; .exc is set when urljoin/urlparse raised
RECURSIVE LinkLoop(_, _, _, _)
LinkLoop(links, base, internal_links, external_links) ==
    IF Len(links) = 0
    THEN [exc |-> <<>>, internal_links |-> internal_links,
          external_links |-> external_links]
    ELSE LET href == strip_href(Head(links)) IN
         IF skip_href(href)
         THEN LinkLoop(Tail(links), base, internal_links, external_links)
         ELSE IF InvalidNetloc(href.netloc)
         THEN [exc |-> <<"ValueError">>, internal_links |-> internal_links,
               external_links |-> external_links]
         ELSE LET clean_url == urldefrag(urljoin(base, href)) IN
              IF is_internal(clean_url, base)
              THEN LinkLoop(Tail(links), base,
                            Append(internal_links, clean_url), external_links)
              ELSE LinkLoop(Tail(links), base,
                            internal_links, Append(external_links, clean_url))

\* the number of links the loop did not skip
total_links_partitioned(links) ==
    Len(SelectSeq(links, LAMBDA a : ~skip_href(strip_href(a))))

\* 'total_links': len(links)
total_links(links) == Len(links)

\* The possible outcomes of extract_links: [exc |-> <<e>>] when it raises,
\* else [exc |-> <<>>, fields |-> the returned dict], one per iteration order
\* of the two sets.
extract_links(sp, base) ==
    LET links == find_all_a_href(sp)
        loop == LinkLoop(links, base, <<>>, <<>>)
    IN  IF Len(loop.exc) > 0 THEN {[exc |-> loop.exc]}
        ELSE {[exc |-> <<>>,
               fields |->
                 [total_links |-> total_links(links),
                  internal_links |-> il,
                  external_links |-> el,
                  internal_links_count |-> Cardinality(Range(loop.internal_links)),
                  external_links_count |-> Cardinality(Range(loop.external_links))]] :
              il \in list_set(loop.internal_links),
              el \in list_set(loop.external_links)}

\* the dict built from the tags in document order: the last tag with a key wins
tag_dict(tags) ==
    [key \in {tags[i].key : i \in DOMAIN tags} |->
        LET last == CHOOSE i \in DOMAIN tags :
                        /\ tags[i].key = key
                        /\ \A j \in DOMAIN tags : tags[j].key = key => j <= i
        IN  tags[last].content]

extract_social_meta_tags(sp) ==
    LET og_tags == tag_dict(sp.og)
        twitter_tags == tag_dict(sp.twitter)
    IN  [og_tags |-> og_tags,
         twitter_tags |-> twitter_tags,
         og_tags_count |-> Cardinality(DOMAIN og_tags),
         twitter_tags_count |-> Cardinality(DOMAIN twitter_tags),
         has_og_title |-> "og:title" \in DOMAIN og_tags,
         has_og_description |-> "og:description" \in DOMAIN og_tags,
         has_og_image |-> "og:image" \in DOMAIN og_tags,
         has_twitter_card |-> "twitter:card" \in DOMAIN twitter_tags]

\* the hosts collected by the loop of extract_backlink_insights, in order
RECURSIVE BacklinkLoop(_, _)
BacklinkLoop(links, base_domain) ==
    IF Len(links) = 0 THEN [exc |-> <<>>, domains |-> <<>>]
    ELSE LET href == Head(links) IN
         IF ~href_contains(href, base_domain)
         THEN BacklinkLoop(Tail(links), base_domain)
         ELSE IF InvalidNetloc(href.netloc)
         THEN [exc |-> <<"ValueError">>, domains |-> <<>>]
         ELSE LET rest == BacklinkLoop(Tail(links), base_domain) IN
              IF href.netloc # base_domain
              THEN [rest EXCEPT !.domains = <<href.netloc>> \o @]
              ELSE rest

\* The possible outcomes of extract_backlink_insights, as for extract_links.
extract_backlink_insights(sp, base) ==
    LET loop == BacklinkLoop(find_all_a_href(sp), netloc(base))
    IN  IF Len(loop.exc) > 0 THEN {[exc |-> loop.exc]}
        ELSE {[exc |-> <<>>,
               fields |->
                 [potential_referring_domains |-> rd,
                  referring_domains_count |-> Cardinality(Range(loop.domains))]] :
              rd \in list_set(loop.domains)}

---------------------------------------------------------------------------
(* Exception handlers.  Every exception the program meets (ValueError from *)
(* urllib, the requests exceptions) is a subclass of Exception.            *)

ExceptionSubclasses == {"ValueError", "ConnectionError", "Timeout"}

\* except ValueError
catches_value_errors(e) == e = "ValueError"

\* fetch_page: except Exception
fetch_page_catches(e) == e \in ExceptionSubclasses

\* check_broken_links: except Exception
check_broken_links_catches(e) == e \in ExceptionSubclasses

\* check_robots_and_sitemap: except Exception (both probes)
check_robots_catches(e) == e \in ExceptionSubclasses

\* except requests.RequestException
catches_request_errors(e) == e \in {"ConnectionError", "Timeout"}

\* analyze_url: except Exception
analyze_url_catches(e) == e \in ExceptionSubclasses

---------------------------------------------------------------------------
(* Fetcher *)

\* response.status_code < 400
status_below_400(status_code) == status_code < BrokenFrom

\* response.status_code == 200
status_is_ok(status_code) == status_code = HTTP_OK

\* What fetch_page does with the outcome of session.get: [exc |-> <<e>>] when
\* it raises to its caller, else [exc |-> <<>>, value |-> the returned value].
fetch_page(resp) ==
    IF Len(resp.exc) > 0
    THEN (IF fetch_page_catches(resp.exc[1])
          THEN [exc |-> <<>>, value |-> None]
          ELSE [exc |-> resp.exc])
    ELSE IF status_is_ok(resp.status_code)
    THEN [exc |-> <<>>,
          value |-> [content |-> resp.text,
                     load_time |-> resp.elapsed,
                     status_code |-> resp.status_code,
                     final_url |-> resp.url,
                     headers |-> resp.headers]]
    ELSE [exc |-> <<>>, value |-> None]

\* BeautifulSoup(content, 'html.parser'): the document is held by its elements
\* both as text and as tree
parse_html(text) == text

---------------------------------------------------------------------------
(* Orchestrator: the pure part of analyze_url *)

\* result = {'url': ..., 'timestamp': ..., 'analysis_successful': False}
\* a variant that analyses against the URL the fetch ended at
final_url_of(res) == res.final_url

\* the url argument analyze_url passes to extract_links,
\* check_robots_and_sitemap and extract_backlink_insights
analysis_base(res) == res.url

\* a variant that goes on to the site checks
after_fetch_failure_continues == "robots"

\* if not page_data: ... return result
after_fetch_failure == "return"

initial_result(url, now) ==
    [url |-> url, timestamp |-> now, analysis_successful |-> FALSE]

\* the failure result also given a status_code
fetch_failed_result_with_status(res) ==
    Update(res, [error |-> "Failed to fetch page", status_code |-> 0])

\* result['error'] = "Failed to fetch page"; return result
fetch_failed_result(res) == Update(res, [error |-> "Failed to fetch page"])

\* result['load_time'] = ...; result['status_code'] = ...; result['final_url'] = ...
fetched_result(res, pd) ==
    Update(res, [load_time |-> pd.load_time,
                 status_code |-> pd.status_code,
                 final_url |-> pd.final_url])

\* the except clause of analyze_url: result['error'] = str(e)
error_result(res, e) == Update(res, [error |-> e])

\* result['analysis_successful'] = True
successful_result(res) == Update(res, [analysis_successful |-> TRUE])

\* The extractors that run before extract_links, in the order of analyze_url;
\* each sees the tree left by the one before.
extract_on_page(sp) ==
    LET wc == extract_word_count(sp)
    IN  [soup |-> wc.soup,
         fields |->
            Update(Update(Update(Update(Update(extract_title(sp),
                extract_meta_description(sp)),
                extract_canonical_url(sp)),
                extract_headings(sp)),
                wc.fields),
                extract_images(wc.soup))]

\* all_links = links_data['internal_links'] + links_data['external_links']
all_links(links_data) == links_data.internal_links \o links_data.external_links

\* The outcomes of analyze_url from extract_title to all_links: the tree after
\* it, the fields merged so far, and either the exception or all_links.
analysis_head(sp, url) ==
    LET on_page == extract_on_page(sp)
    IN  {IF Len(ld.exc) > 0
         THEN [exc |-> ld.exc, soup |-> on_page.soup, fields |-> on_page.fields]
         ELSE [exc |-> <<>>, soup |-> on_page.soup,
               fields |-> Update(on_page.fields, ld.fields),
               all_links |-> all_links(ld.fields)] :
         ld \in extract_links(on_page.soup, url)}

\* The outcomes of analyze_url from extract_social_meta_tags on.
analysis_tail(sp, url) ==
    LET social == extract_social_meta_tags(sp)
    IN  {IF Len(bl.exc) > 0
         THEN [exc |-> bl.exc, fields |-> social]
         ELSE [exc |-> <<>>, fields |-> Update(social, bl.fields)] :
         bl \in extract_backlink_insights(sp, url)}

\* links[:20]
\* a variant without the limit
sample_all(links) == links

sample_links(links) == Prefix(links, SampleLimit)

\* response.status_code >= 400
\* a variant that lets the first failing status through
status_above_400(status_code) == status_code > BrokenFrom

status_is_broken(status_code) == status_code >= BrokenFrom

\* a variant that takes the first link again at every iteration
first_link(links, i) == links[1]

\* a variant that walks the list from its end
nth_link_backwards(links, i) == links[Len(links) + 1 - i]

\* for link in links_to_check: the link of the i-th iteration
nth_link(links, i) == links[i]

\* a variant that puts a new entry in front of the list
insert_broken(entries, entry) == <<entry>> \o entries

\* broken_links.append(entry)
append_broken(entries, entry) == Append(entries, entry)

\* the urls of check_robots_and_sitemap
robots_url(base) == Url(base.scheme, base.netloc, "/robots.txt", "", "")
sitemap_url(base) == Url(base.scheme, base.netloc, "/sitemap.xml", "", "")

\* results.insert(0, result)
prepend_result(rs, r) == <<r>> \o rs

\* results.append(result)
append_result(rs, r) == Append(rs, r)

---------------------------------------------------------------------------
(* The inputs: page URLs, documents, responses *)

PageUrl1 == Url("https", "site.test", "/page", "", "")
PageUrl2 == Url("https", "other.test", "", "", "")
PageUrls == {PageUrl1, PageUrl2}

\* "", "  ", "#top", "/a", "/a#top", " /b ", "https://site.test/a",
\* "https://other.test/a", "https://[" and an <a> without href
HrefEmpty == Href(TRUE, 0, "", "", "", "", "")
HrefBlank == Href(TRUE, 1, "", "", "", "", "")
HrefFragment == Href(TRUE, 0, "", "", "", "", "top")
HrefPathA == Href(TRUE, 0, "", "", "/a", "", "")
HrefPathAFragment == Href(TRUE, 0, "", "", "/a", "", "top")
HrefPathBPadded == Href(TRUE, 1, "", "", "/b", "", "")
HrefSiteA == Href(TRUE, 0, "https", "site.test", "/a", "", "")
HrefOtherA == Href(TRUE, 0, "https", "other.test", "/a", "", "")
HrefInvalid == Href(TRUE, 0, "https", "[", "", "", "")
AnchorNoHref == Href(FALSE, 0, "", "", "", "", "")

\* "https://mysite.test/a", "https://other.test/?ref=site.test" and
\* "/share?u=site.test": hrefs that contain the host site.test
HrefMySiteA == Href(TRUE, 0, "https", "mysite.test", "/a", "", "")
HrefOtherRef == Href(TRUE, 0, "https", "other.test", "", "site.test", "")
HrefShareRef == Href(TRUE, 0, "", "", "/share", "site.test", "")

Hrefs == {HrefEmpty, HrefBlank, HrefFragment, HrefPathA, HrefPathAFragment,
          HrefPathBPadded, HrefSiteA, HrefOtherA, HrefInvalid, AnchorNoHref}

SeqsUpTo(S, n) == UNION {[1..k -> S] : k \in 0..n}

NoHeadings == [h1 |-> <<>>, h2 |-> <<>>, h3 |-> <<>>,
               h4 |-> <<>>, h5 |-> <<>>, h6 |-> <<>>]

\* a page with a good title, one h1, one script and nothing else
PlainDoc ==
    [title |-> <<[text |-> Text(1, TitleMin)]>>,
     meta_description |-> <<>>,
     canonical |-> <<>>,
     headings |-> [NoHeadings EXCEPT !.h1 = <<Text(0, 5)>>],
     words |-> MinWords,
     scripts |-> <<7>>,
     images |-> <<[alt |-> <<>>]>>,
     anchors |-> <<>>,
     og |-> <<[key |-> "og:title", content |-> "a"]>>,
     twitter |-> <<>>]

\* the documents of the extraction stage: every anchor list up to MaxAnchors
LinkDocs == {[PlainDoc EXCEPT !.anchors = a] : a \in SeqsUpTo(Hrefs, MaxAnchors)}

\* the images of a page: without alt, with an empty, a blank and a
\* non-empty alt text
Images == {[alt |-> <<>>]}
            \cup {[alt |-> <<Text(p, n)>>] : p \in 0..1, n \in {0, 3}}
ImageDocs == {[PlainDoc EXCEPT !.images = i] : i \in SeqsUpTo(Images, MaxImages)}
\* pages whose anchors mention the host site.test
BacklinkDocs ==
    {[PlainDoc EXCEPT !.anchors = a] :
        a \in SeqsUpTo({HrefSiteA, HrefMySiteA, HrefOtherRef, HrefShareRef},
                       MaxAnchors)}
StageDocs == LinkDocs \cup ImageDocs \cup BacklinkDocs

\* the documents of the batch
BatchDocs == {[PlainDoc EXCEPT !.anchors = <<HrefPathA, HrefOtherA>>],
              [PlainDoc EXCEPT !.anchors = <<HrefPathA, HrefInvalid>>]}

\* the documents of the single-page analysis: the on-page fields around
\* their thresholds
TitleTexts ==
    {Text(p, n) : p \in 0..1, n \in {0, TitleMin - 1, TitleMin, TitleMax, TitleMax + 1}}
MetaTexts ==
    {Text(p, n) : p \in 0..1, n \in {0, MetaMin - 1, MetaMin, MetaMax, MetaMax + 1}}
FieldDocs ==
    {[PlainDoc EXCEPT !.title = t, !.meta_description = m,
                      !.headings = [NoHeadings EXCEPT !.h1 = h], !.words = w] :
        t \in {<<>>} \cup {<<[text |-> x]>> : x \in TitleTexts},
        m \in {<<>>, <<[content |-> <<>>]>>}
                \cup {<<[content |-> <<x>>]>> : x \in MetaTexts},
        h \in SeqsUpTo({Text(0, 5)}, 2),
        w \in {0, MinWords - 1, MinWords}}
\* the fields the technical, images and social scores read
Canonicals == {<<>>, <<[href |-> <<>>]>>, <<[href |-> <<HrefSiteA>>]>>}
OgKeys == <<"og:title", "og:description", "og:image">>
OgTags == {SelectSeq(OgKeys, LAMBDA k : k \in S) : S \in SUBSET Range(OgKeys)}
ScoreDocs ==
    {[PlainDoc EXCEPT !.canonical = c, !.images = i,
                      !.og = [k \in DOMAIN o |-> [key |-> o[k], content |-> "a"]]] :
        c \in Canonicals,
        i \in SeqsUpTo({[alt |-> <<>>], [alt |-> <<Text(1, 0)>>],
                        [alt |-> <<Text(0, 3)>>]}, MaxImages),
        o \in OgTags}

\* a page with no title, no description, three h1, 50 words and ten images
\* that all lack alt
PoorDoc ==
    [PlainDoc EXCEPT !.title = <<>>,
                     !.headings = [NoHeadings EXCEPT
                                      !.h1 = <<Text(0, 5), Text(0, 5), Text(0, 5)>>],
                     !.words = 50,
                     !.images = [i \in 1..10 |-> [alt |-> <<>>]],
                     !.og = <<>>]

\* a page with a 45-character title, a 140-character description, one h1,
\* 350 words, no image, a canonical link and the three Open Graph tags
GoodDoc ==
    [PlainDoc EXCEPT !.title = <<[text |-> Text(0, 45)]>>,
                     !.meta_description = <<[content |-> <<Text(0, 140)>>]>>,
                     !.words = 350,
                     !.images = <<>>,
                     !.canonical = <<[href |-> <<HrefSiteA>>]>>,
                     !.og = <<[key |-> "og:title", content |-> "a"],
                              [key |-> "og:description", content |-> "a"],
                              [key |-> "og:image", content |-> "a"]>>]

PageDocs == FieldDocs \cup ScoreDocs \cup BatchDocs \cup {PoorDoc, GoodDoc}

\* what session.get(url) can produce: an exception, or a response of any
\* status carrying any document
FetchStatusCodes == {HTTP_OK, 204, 404, 500}
ProbeStatusCodes == {HTTP_OK, BrokenFrom - 1, BrokenFrom}
TransportErrors == {[exc |-> <<"ConnectionError">>]}
Responses(docs, url) ==
    TransportErrors \cup
    {[exc |-> <<>>, status_code |-> sc, text |-> d, url |-> url,
      elapsed |-> 1, headers |-> <<>>] : sc \in FetchStatusCodes, d \in docs}

\* allow_redirects=True: response.url is the URL asked for or, after a
\* redirect, a URL on another host
Redirected(url) ==
    Url(url.scheme, IF url.netloc = "site.test" THEN "other.test" ELSE "site.test",
        "/landing", "", "")
RedirectResponses(docs, url) ==
    TransportErrors \cup
    {[exc |-> <<>>, status_code |-> sc, text |-> d, url |-> u,
      elapsed |-> 1, headers |-> <<>>] :
        sc \in FetchStatusCodes, d \in docs, u \in {url, Redirected(url)}}

\* what a HEAD or GET probe can produce
ProbeResponses ==
    TransportErrors \cup {[exc |-> <<>>, status_code |-> sc] : sc \in ProbeStatusCodes}

\* the probes of a batch: answered with 200 or failing in transport
BatchProbeResponses ==
    TransportErrors \cup {[exc |-> <<>>, status_code |-> HTTP_OK]}

\* the arguments of check_broken_links called on its own: lists of
\* distinct links, empty, short, and around the sample limit
ProbePaths == <<"/l01", "/l02", "/l03", "/l04", "/l05", "/l06", "/l07",
                "/l08", "/l09", "/l10", "/l11", "/l12", "/l13", "/l14",
                "/l15", "/l16", "/l17", "/l18", "/l19", "/l20", "/l21">>
ProbeList(n) == [i \in 1..n |-> Url("https", "other.test", ProbePaths[i], "", "")]
ProbeLists == {ProbeList(n) : n \in {0, 1, 2, SampleLimit - 1, SampleLimit,
                                     SampleLimit + 1}}

\* what a probe of such a list can produce: up to MaxFailures of them fail,
\* by status or in transport
FewFailures ==
    IF Len(broken_links) < MaxFailures
    THEN TransportErrors
           \cup {[exc |-> <<>>, status_code |-> sc] : sc \in {HTTP_OK, BrokenFrom}}
    ELSE {[exc |-> <<>>, status_code |-> HTTP_OK]}

---------------------------------------------------------------------------
(* analyze_urls and analyze_url, one action per network exchange *)

Request(method, url) == [method |-> method, url |-> url, index |-> idx + 1]

\* a probe (session.head of a link, session.get of robots.txt or sitemap.xml)
\* and what it produced
Probe(method, url, resp) == [method |-> method, url |-> url, resp |-> resp]

\* leaving the try block of analyze_url with exception e
Handled(e) ==
    IF analyze_url_catches(e)
    THEN /\ result' = error_result(result, e)
         /\ pc' = "return"
    ELSE /\ result' = result
         /\ pc' = "raised"

\* for i, url in enumerate(urls, 1): ... analyze_url(url): the initial result
StartUrl ==
    /\ pc = "loop"
    /\ idx < Len(urls)
    /\ result' = initial_result(urls[idx + 1], clock)
    /\ clock' = clock + 1
    /\ pc' = "fetch"
    /\ response' = None
    /\ page_data' = None
    /\ soup' = None
    /\ links_to_check' = <<>>
    /\ probe_i' = 0
    /\ broken_links' = <<>>
    /\ checked_links' = 0
    /\ robots_exists' = FALSE
    /\ links_arg' = <<>>
    /\ probe_log' = <<>>
    /\ UNCHANGED <<urls, idx, results, requests>>
    /\ UNCHANGED <<scores_data>>
    /\ UNCHANGED stageVars

\* page_data = self.fetch_page(url) and what analyze_url does with it, up to
\* parse_html
Fetch(resps) ==
    /\ pc = "fetch"
    /\ \E resp \in resps :
        LET fp == fetch_page(resp) IN
        /\ response' = resp
        /\ requests' = Append(requests, Request("GET", result.url))
        /\ IF Len(fp.exc) > 0
           THEN /\ Handled(fp.exc[1])
                /\ UNCHANGED <<page_data, soup>>
           ELSE /\ page_data' = fp.value
                /\ IF fp.value = None
                   THEN /\ result' = fetch_failed_result(result)
                        /\ pc' = after_fetch_failure
                        /\ soup' = soup
                   ELSE /\ result' = fetched_result(result, fp.value)
                        /\ soup' = parse_html(fp.value.content)
                        /\ pc' = "extract"
    /\ UNCHANGED <<urls, idx, results, clock, links_to_check, probe_i,
                   broken_links, checked_links, robots_exists>>
    /\ UNCHANGED <<scores_data, links_arg, probe_log>>
    /\ UNCHANGED stageVars

\* the fetch when session.get ends at the URL it was given
FetchPage(docs) == Fetch(Responses(docs, result.url))

\* the fetch when session.get may have followed a redirect to another host
FetchRedirected(docs) == Fetch(RedirectResponses(docs, result.url))

\* extract_title ... extract_links, all_links, and the start of
\* check_broken_links
Extract ==
    /\ pc = "extract"
    /\ \E out \in analysis_head(soup, analysis_base(result)) :
        /\ soup' = out.soup
        /\ IF Len(out.exc) > 0
           THEN /\ result' = IF analyze_url_catches(out.exc[1])
                             THEN error_result(Update(result, out.fields), out.exc[1])
                             ELSE Update(result, out.fields)
                /\ pc' = IF analyze_url_catches(out.exc[1]) THEN "return" ELSE "raised"
                /\ UNCHANGED <<links_arg, links_to_check, probe_i, broken_links,
                               checked_links>>
           ELSE /\ result' = Update(result, out.fields)
                /\ links_arg' = out.all_links
                /\ links_to_check' = sample_links(out.all_links)
                /\ probe_i' = 1
                /\ broken_links' = <<>>
                /\ checked_links' = 0
                /\ pc' = "probe"
    /\ UNCHANGED <<urls, idx, results, clock, response, page_data,
                   robots_exists, requests>>
    /\ UNCHANGED <<scores_data, probe_log>>
    /\ UNCHANGED stageVars

\* one iteration of the loop of check_broken_links
ProbeLink(resps) ==
    /\ pc = "probe"
    /\ probe_i <= Len(links_to_check)
    /\ LET link == nth_link(links_to_check, probe_i) IN
       /\ requests' = Append(requests, Request("HEAD", link))
       /\ \E resp \in resps :
            /\ probe_log' = Append(probe_log, Probe("HEAD", link, resp))
            /\ IF Len(resp.exc) = 0
               THEN /\ broken_links' =
                          IF status_is_broken(resp.status_code)
                          THEN append_broken(broken_links,
                                      [url |-> link, status_code |-> resp.status_code])
                          ELSE broken_links
                    /\ checked_links' = checked_links + 1
                    /\ probe_i' = probe_i + 1
                    /\ UNCHANGED <<result, pc>>
               ELSE IF check_broken_links_catches(resp.exc[1])
               THEN /\ broken_links' =
                          append_broken(broken_links,
                                        [url |-> link, error |-> resp.exc[1]])
                    /\ checked_links' = checked_links + 1
                    /\ probe_i' = probe_i + 1
                    /\ UNCHANGED <<result, pc>>
               ELSE /\ Handled(resp.exc[1])
                    /\ UNCHANGED <<broken_links, checked_links, probe_i>>
    /\ UNCHANGED <<urls, idx, results, clock, response, page_data, soup,
                   links_to_check, robots_exists>>
    /\ UNCHANGED <<scores_data, links_arg>>
    /\ UNCHANGED stageVars

\* the return of check_broken_links and result.update(broken_links_data)
ProbesDone ==
    /\ pc = "probe"
    /\ probe_i > Len(links_to_check)
    /\ result' = Update(result, [checked_links |-> checked_links,
                                 broken_links |-> broken_links,
                                 broken_links_count |-> Len(broken_links)])
    /\ pc' = "robots"
    /\ UNCHANGED <<urls, idx, results, clock, response, page_data, soup,
                   links_to_check, probe_i, broken_links, checked_links,
                   robots_exists, requests>>
    /\ UNCHANGED <<scores_data, links_arg, probe_log>>
    /\ UNCHANGED stageVars

\* check_robots_and_sitemap: the robots.txt probe
RobotsProbe(resps) ==
    /\ pc = "robots"
    /\ requests' = Append(requests, Request("GET", robots_url(analysis_base(result))))
    /\ \E resp \in resps :
        /\ probe_log' = Append(probe_log, Probe("GET", robots_url(analysis_base(result)), resp))
        /\ IF Len(resp.exc) = 0
           THEN /\ robots_exists' = status_is_ok(resp.status_code)
                /\ pc' = "sitemap"
                /\ result' = result
           ELSE IF check_robots_catches(resp.exc[1])
           THEN /\ robots_exists' = FALSE
                /\ pc' = "sitemap"
                /\ result' = result
           ELSE /\ Handled(resp.exc[1])
                /\ robots_exists' = FALSE
    /\ UNCHANGED <<urls, idx, results, clock, response, page_data, soup,
                   links_to_check, probe_i, broken_links, checked_links>>
    /\ UNCHANGED <<scores_data, links_arg>>
    /\ UNCHANGED stageVars

\* check_robots_and_sitemap: the sitemap.xml probe, the returned dict and
\* result.update of it
SitemapProbe(resps) ==
    /\ pc = "sitemap"
    /\ requests' = Append(requests, Request("GET", sitemap_url(analysis_base(result))))
    /\ \E resp \in resps :
        /\ probe_log' = Append(probe_log, Probe("GET", sitemap_url(analysis_base(result)), resp))
        /\ LET found(sitemap_exists) ==
                   /\ result' = Update(result,
                          [robots_txt_exists |-> robots_exists,
                           sitemap_xml_exists |-> sitemap_exists,
                           robots_txt_url |-> robots_url(analysis_base(result)),
                           sitemap_xml_url |-> sitemap_url(analysis_base(result))])
                   /\ pc' = "social"
           IN  IF Len(resp.exc) = 0 THEN found(status_is_ok(resp.status_code))
               ELSE IF check_robots_catches(resp.exc[1]) THEN found(FALSE)
               ELSE Handled(resp.exc[1])
    /\ UNCHANGED <<urls, idx, results, clock, response, page_data, soup,
                   links_to_check, probe_i, broken_links, checked_links,
                   robots_exists>>
    /\ UNCHANGED <<scores_data, links_arg>>
    /\ UNCHANGED stageVars

\* extract_social_meta_tags, extract_backlink_insights, analysis_successful
Finish ==
    /\ pc = "social"
    /\ \E out \in analysis_tail(soup, analysis_base(result)) :
        IF Len(out.exc) > 0
        THEN /\ result' = IF analyze_url_catches(out.exc[1])
                          THEN error_result(Update(result, out.fields), out.exc[1])
                          ELSE Update(result, out.fields)
             /\ pc' = IF analyze_url_catches(out.exc[1]) THEN "return" ELSE "raised"
        ELSE /\ result' = successful_result(Update(result, out.fields))
             /\ pc' = "return"
    /\ UNCHANGED <<urls, idx, results, clock, response, page_data, soup,
                   links_to_check, probe_i, broken_links, checked_links,
                   robots_exists, requests>>
    /\ UNCHANGED <<scores_data, links_arg, probe_log>>
    /\ UNCHANGED stageVars

\* return result; results.append(result); the next iteration
ReturnResult ==
    /\ pc = "return"
    /\ results' = append_result(results, result)
    /\ idx' = idx + 1
    /\ pc' = "loop"
    /\ UNCHANGED <<urls, clock, result, response, page_data, soup,
                   links_to_check, probe_i, broken_links, checked_links,
                   robots_exists, requests>>
    /\ UNCHANGED <<scores_data, links_arg, probe_log>>
    /\ UNCHANGED stageVars

\* return results
ReturnResults ==
    /\ pc = "loop"
    /\ idx = Len(urls)
    /\ pc' = "done"
    /\ UNCHANGED <<urls, idx, results, clock, result, response, page_data, soup,
                   links_to_check, probe_i, broken_links, checked_links,
                   robots_exists, requests>>
    /\ UNCHANGED <<scores_data, links_arg, probe_log>>
    /\ UNCHANGED stageVars

---------------------------------------------------------------------------
(* The extraction stage alone: parse_html and every extractor of            *)
(* analyze_url, no probe, run on the same fetched content in a fresh        *)
(* interpreter each time.                                                   *)

\* .exc, and the content fields when nothing was raised
extraction_stage(text, url) ==
    UNION {IF Len(hd.exc) > 0 THEN {[exc |-> hd.exc]}
           ELSE {IF Len(tl.exc) > 0 THEN [exc |-> tl.exc]
                 ELSE [exc |-> <<>>, fields |-> Update(hd.fields, tl.fields)] :
                 tl \in analysis_tail(hd.soup, url)} :
           hd \in analysis_head(parse_html(text), url)}

RunExtraction ==
    /\ Len(runs) < 2
    /\ \E out \in extraction_stage(content, base_url) :
        runs' = Append(runs, out)
    /\ UNCHANGED <<content, base_url>>
    /\ UNCHANGED pipeVars

---------------------------------------------------------------------------
(* create_seo_score_chart of app.py: the score rows of the results.  The
   scores are quotients; they are kept exact, as numerator and denominator,
   with a positive denominator. *)

Rat(n, d) == [num |-> n, den |-> d]
RatAdd(a, b) == Rat(a.num * b.den + b.num * a.den, a.den * b.den)
RatMul(a, k) == Rat(a.num * k, a.den)
RatDiv(a, k) == Rat(a.num, a.den * k)
RatEq(a, b) == a.num * b.den = b.num * a.den
RatLeq(a, b) == a.num * b.den <= b.num * a.den

\* result.get(key, default)
get(r, key, default) == IF key \in DOMAIN r THEN r[key] ELSE default

\* the truth value of result.get(key) for a boolean field
flag(r, key) == get(r, key, FALSE)

\* 100 if cond else 0
points(cond) == IF cond THEN 100 ELSE 0

title_score(r) ==
    Rat(IF flag(r, "title_optimal") THEN 100
        ELSE IF flag(r, "title_exists") THEN 50 ELSE 0, 1)

meta_score(r) ==
    Rat(IF flag(r, "meta_description_optimal") THEN 100
        ELSE IF flag(r, "meta_description_exists") THEN 50 ELSE 0, 1)

\* a variant that gives a page with several h1 no credit
h1_score_strict(r) == Rat(points(flag(r, "h1_optimal")), 1)

h1_score(r) ==
    Rat(IF flag(r, "h1_optimal") THEN 100
        ELSE IF flag(r, "has_h1") THEN 50 ELSE 0, 1)

content_score(r) == Rat(IF flag(r, "content_length_optimal") THEN 100 ELSE 50, 1)

\* a variant that averages only two of the three checks
technical_score_of_two(r) ==
    Rat(points(flag(r, "robots_txt_exists"))
          + points(flag(r, "sitemap_xml_exists")), 3)

technical_score(r) ==
    Rat(points(flag(r, "robots_txt_exists"))
          + points(flag(r, "sitemap_xml_exists"))
          + points(flag(r, "canonical_exists")), 3)

\* a variant without the special case of a page that has no image
images_score_ratio_only(r) ==
    RatMul(get(r, "images_alt_optimization", Rat(0, 1)), 100)

images_score(r) ==
    IF get(r, "total_images", 0) > 0
    THEN RatMul(get(r, "images_alt_optimization", Rat(0, 1)), 100)
    ELSE Rat(100, 1)

social_score(r) ==
    Rat(points(flag(r, "has_og_title"))
          + points(flag(r, "has_og_description"))
          + points(flag(r, "has_og_image")), 3)

category_scores(r) ==
    <<title_score(r), meta_score(r), h1_score(r), content_score(r),
      technical_score(r), images_score(r), social_score(r)>>

RECURSIVE RatSum(_)
RatSum(s) == IF Len(s) = 0 THEN Rat(0, 1) ELSE RatAdd(Head(s), RatSum(Tail(s)))

overall_score(r) == RatDiv(RatSum(category_scores(r)), 7)

\* the row appended to scores_data (its display URL is left out: the rows
\* keep the order of the successful results)
score_row(r) ==
    [Title |-> title_score(r),
     H1 |-> h1_score(r),
     Content |-> content_score(r),
     Technical |-> technical_score(r),
     Images |-> images_score(r),
     Social |-> social_score(r),
     Overall |-> overall_score(r)] @@ ("Meta Desc" :> meta_score(r))

\* the results create_seo_score_chart scores
scored(rs) == SelectSeq(rs, LAMBDA r : flag(r, "analysis_successful"))

\* app.py: the chart of the stored results, drawn when one has succeeded
CreateScoreChart ==
    /\ pc = "done"
    /\ Len(scored(results)) > 0
    /\ scores_data' = [i \in DOMAIN scored(results) |-> score_row(scored(results)[i])]
    /\ pc' = "charted"
    /\ UNCHANGED <<urls, idx, results, clock, result, response, page_data, soup,
                   links_arg, links_to_check, probe_i, broken_links,
                   checked_links, robots_exists, requests, probe_log>>
    /\ UNCHANGED stageVars

---------------------------------------------------------------------------
(* Specifications *)

PipeIdle ==
    /\ idx = 0
    /\ results = <<>>
    /\ pc = "loop"
    /\ clock = 0
    /\ result = None
    /\ response = None
    /\ page_data = None
    /\ soup = None
    /\ links_to_check = <<>>
    /\ probe_i = 0
    /\ broken_links = <<>>
    /\ checked_links = 0
    /\ robots_exists = FALSE
    /\ requests = <<>>
    /\ links_arg = <<>>
    /\ probe_log = <<>>
    /\ scores_data = <<>>

StageIdle ==
    /\ content = None
    /\ base_url = None
    /\ runs = <<>>

\* analyze_urls on every list of up to MaxUrls URLs
Init ==
    /\ urls \in SeqsUpTo(PageUrls, MaxUrls)
    /\ PipeIdle
    /\ StageIdle

Next ==
    \/ StartUrl
    \/ FetchPage(BatchDocs)
    \/ Extract
    \/ ProbeLink(BatchProbeResponses)
    \/ ProbesDone
    \/ RobotsProbe(BatchProbeResponses)
    \/ SitemapProbe(BatchProbeResponses)
    \/ Finish
    \/ ReturnResult
    \/ ReturnResults
    \/ CreateScoreChart

Spec == Init /\ [][Next]_vars

\* analyze_url on one URL whose fetch may be redirected to another host
RedirectDocs ==
    {[PlainDoc EXCEPT !.anchors = a] :
        a \in SeqsUpTo({HrefFragment, HrefPathA, HrefOtherA, HrefOtherRef},
                       MaxAnchors)}

InitRedirect ==
    /\ urls \in {<<u>> : u \in PageUrls}
    /\ PipeIdle
    /\ StageIdle

NextRedirect ==
    \/ StartUrl
    \/ FetchRedirected(RedirectDocs)
    \/ Extract
    \/ ProbeLink(BatchProbeResponses)
    \/ ProbesDone
    \/ RobotsProbe(BatchProbeResponses)
    \/ SitemapProbe(BatchProbeResponses)
    \/ Finish
    \/ ReturnResult
    \/ ReturnResults

SpecRedirect == InitRedirect /\ [][NextRedirect]_vars

\* The batch when every step that can be taken is eventually taken: the
\* program is one thread, each network call returns a response or raises
\* within its timeout, and time.sleep(1) ends.  The batch is a list of up to
\* MaxUrls copies of one URL, the pages are those of LiveDocs.
LiveDocs == {[PlainDoc EXCEPT !.anchors = <<HrefOtherA>>],
             [PlainDoc EXCEPT !.anchors = <<HrefInvalid>>]}

InitLive ==
    /\ urls \in SeqsUpTo({PageUrl1}, MaxUrls)
    /\ PipeIdle
    /\ StageIdle

NextLive ==
    \/ StartUrl
    \/ FetchPage(LiveDocs)
    \/ Extract
    \/ ProbeLink(BatchProbeResponses)
    \/ ProbesDone
    \/ RobotsProbe(BatchProbeResponses)
    \/ SitemapProbe(BatchProbeResponses)
    \/ Finish
    \/ ReturnResult
    \/ ReturnResults

Fairness ==
    /\ WF_vars(StartUrl)
    /\ WF_vars(FetchPage(LiveDocs))
    /\ WF_vars(Extract)
    /\ WF_vars(ProbeLink(BatchProbeResponses))
    /\ WF_vars(ProbesDone)
    /\ WF_vars(RobotsProbe(BatchProbeResponses))
    /\ WF_vars(SitemapProbe(BatchProbeResponses))
    /\ WF_vars(Finish)
    /\ WF_vars(ReturnResult)
    /\ WF_vars(ReturnResults)

SpecLive == InitLive /\ [][NextLive]_vars /\ Fairness

\* analyze_url on one URL, over the documents of PageDocs
InitPage ==
    /\ urls \in {<<u>> : u \in PageUrls}
    /\ PipeIdle
    /\ StageIdle

NextPage ==
    \/ StartUrl
    \/ FetchPage(PageDocs)
    \/ Extract
    \/ ProbeLink(ProbeResponses)
    \/ ProbesDone
    \/ RobotsProbe(ProbeResponses)
    \/ SitemapProbe(ProbeResponses)
    \/ Finish
    \/ ReturnResult
    \/ ReturnResults
    \/ CreateScoreChart

SpecPage == InitPage /\ [][NextPage]_vars

\* the extraction stage on every document of LinkDocs and every page URL
InitExtract ==
    /\ urls = <<>>
    /\ PipeIdle
    /\ content \in StageDocs
    /\ base_url \in PageUrls
    /\ runs = <<>>

NextExtract == RunExtraction

\* check_broken_links called with each list of ProbeLists
InitProbe ==
    /\ urls = <<PageUrl1>>
    /\ idx = 0
    /\ results = <<>>
    /\ scores_data = <<>>
    /\ clock = 1
    /\ result = initial_result(PageUrl1, 0)
    /\ response = None
    /\ page_data = None
    /\ soup = None
    /\ links_arg \in ProbeLists
    /\ links_to_check = sample_links(links_arg)
    /\ probe_i = 1
    /\ broken_links = <<>>
    /\ checked_links = 0
    /\ pc = "probe"
    /\ robots_exists = FALSE
    /\ requests = <<>>
    /\ probe_log = <<>>
    /\ StageIdle

NextProbe ==
    \/ ProbeLink(FewFailures)
    \/ ProbesDone

SpecProbe == InitProbe /\ [][NextProbe]_vars

SpecExtract == InitExtract /\ [][NextExtract]_vars

---------------------------------------------------------------------------
(* Claims *)

FailureKeys == {"url", "timestamp", "analysis_successful", "error"}

\* C1: analyze_urls returns one result per input URL, in input order,
\* duplicates included: at every moment the results are those of the first
\* idx URLs, and at the return there are as many results as URLs.
C1_OrderPreserved ==
    /\ Len(results) <= Len(urls)
    /\ \A i \in DOMAIN results : results[i].url = urls[i]
    /\ pc = "done" => Len(results) = Len(urls)

C1_Witness ==
    /\ pc = "done"
    /\ Len(results) >= 2
    /\ urls[1] # urls[2]
    /\ ~results[1].analysis_successful
    /\ results[2].analysis_successful

\* C2: no outcome of the fetch, of an extractor or of a probe makes
\* analyze_url raise; it returns a result, and analyze_urls analyses every
\* later URL too.
C2_FailureNeverAborts ==
    /\ pc # "raised"
    /\ pc = "return" => "analysis_successful" \in DOMAIN result
    /\ pc = "done" => Len(results) = Len(urls)

C2_Witness ==
    /\ pc = "done"
    /\ Len(results) >= 2
    /\ ~results[1].analysis_successful
    /\ results[1].error = "ValueError"
    /\ \E r \in Range(requests) : r.index = 2 /\ r.method = "HEAD"

\* C3: when the fetch of the page fails, the returned result is unsuccessful,
\* carries a non-empty error and has exactly the keys url, timestamp,
\* analysis_successful and error.
C3_FetchFailureResult ==
    (pc = "return" /\ page_data = None) =>
        /\ result.analysis_successful = FALSE
        /\ DOMAIN result = FailureKeys
        /\ result.error # ""

C3_Witness ==
    /\ pc = "return"
    /\ page_data = None
    /\ Len(response.exc) = 0
    /\ response.status_code = 404

\* C4: a result returned with analysis_successful false carries no key
\* besides url, timestamp, analysis_successful and error.
C4_UnsuccessfulHasNoContent ==
    (pc = "return" /\ ~result.analysis_successful) =>
        DOMAIN result \subseteq FailureKeys

\* C5: whenever fetch_page returned a page record, the returned result is
\* successful and has no error key.
C5_OnlyFetchFailureFails ==
    (pc = "return" /\ page_data # None) =>
        /\ result.analysis_successful
        /\ "error" \notin DOMAIN result

\* C6: fetch_page never raises; it returns a page record exactly when the
\* request completed with status 200, the record being that of the
\* response, and None in every other case; analyze_url receives that value.
C6_FetchPageContract ==
    (response # None) =>
        LET fp == fetch_page(response) IN
        /\ Len(fp.exc) = 0
        /\ (fp.value # None) <=>
               (Len(response.exc) = 0 /\ response.status_code = 200)
        /\ (fp.value # None) =>
               /\ fp.value.content = response.text
               /\ fp.value.status_code = 200
               /\ fp.value.final_url = response.url
               /\ fp.value.load_time = response.elapsed
        /\ page_data = fp.value

C6_Witness ==
    /\ pc = "return"
    /\ Len(response.exc) > 0
    /\ page_data = None
    /\ \E i \in DOMAIN results : results[i].analysis_successful

\* C7: two runs of the extraction stage on the same content and URL give
\* identical outputs, the order of the link lists included.
C7_ExtractionIdempotent ==
    Len(runs) = 2 => runs[1] = runs[2]

\* the anchors extract_links partitions, and the URL each one stands for
Partitioned(doc) ==
    {i \in DOMAIN doc.anchors :
        /\ doc.anchors[i].attr
        /\ ~IsEmptyStr(strip_href(doc.anchors[i]))
        /\ ~startswith_hash(strip_href(doc.anchors[i]))}
Resolved(doc, base, i) == urldefrag(urljoin(base, strip_href(doc.anchors[i])))

NoDuplicates(s) == \A i, j \in DOMAIN s : i # j => s[i] # s[j]

\* C8: in the output of extract_links every partitioned anchor has its
\* resolved, fragment-stripped URL in exactly one of internal_links (same
\* netloc as the base URL) and external_links; the lists hold nothing else,
\* share no URL and have no duplicate.
C8_LinkPartition ==
    \A r \in DOMAIN runs :
        Len(runs[r].exc) = 0 =>
            LET f == runs[r].fields
                int == Range(f.internal_links)
                ext == Range(f.external_links)
            IN  /\ \A i \in Partitioned(content) :
                     LET u == Resolved(content, base_url, i) IN
                     /\ (u \in int) # (u \in ext)
                     /\ (u \in int) <=> (u.netloc = base_url.netloc)
                /\ int \cup ext =
                     {Resolved(content, base_url, i) : i \in Partitioned(content)}
                /\ int \cap ext = {}
                /\ NoDuplicates(f.internal_links)
                /\ NoDuplicates(f.external_links)

C8_Witness ==
    /\ Len(runs) >= 1
    /\ Len(runs[1].exc) = 0
    /\ Partitioned(content) = {1, 2}
    /\ Resolved(content, base_url, 1) = Resolved(content, base_url, 2)
    /\ content.anchors[1] # content.anchors[2]
    /\ Len(runs[1].fields.internal_links) = 1
    /\ Len(runs[1].fields.external_links) = 0

\* C9 as claimed: total_links counts only the anchors that were partitioned.
C9_TotalCountsPartitionedOnly ==
    \A r \in DOMAIN runs :
        Len(runs[r].exc) = 0 =>
            runs[r].fields.total_links = Cardinality(Partitioned(content))

\* C9 amended: anchors with an empty or pure-fragment href are in neither
\* list, but total_links counts every <a> carrying an href attribute, those
\* anchors included.
C9_TotalCountsEveryHref ==
    \A r \in DOMAIN runs :
        Len(runs[r].exc) = 0 =>
            LET f == runs[r].fields IN
            /\ f.total_links =
                 Cardinality({i \in DOMAIN content.anchors : content.anchors[i].attr})
            /\ Range(f.internal_links) \cup Range(f.external_links) =
                 {Resolved(content, base_url, i) : i \in Partitioned(content)}
            /\ f.internal_links_count + f.external_links_count
                 <= Cardinality(Partitioned(content))

C9_Witness ==
    /\ Len(runs) >= 1
    /\ Len(runs[1].exc) = 0
    /\ content.anchors = <<HrefFragment, HrefBlank>>
    /\ runs[1].fields.total_links = 2
    /\ runs[1].fields.internal_links = <<>>
    /\ runs[1].fields.external_links = <<>>

\* C10: in every successful result each optimality flag is the stated
\* function of the stored length or count, both range bounds inclusive.
FlagsMatchFields(r) ==
    /\ r.title_optimal = (30 <= r.title_length /\ r.title_length <= 60)
    /\ r.meta_description_optimal =
         (120 <= r.meta_description_length /\ r.meta_description_length <= 160)
    /\ r.h1_optimal = (r.heading_counts.h1_count = 1)
    /\ r.content_length_optimal = (r.word_count >= 300)

C10_FlagsMatchFields ==
    /\ (pc = "return" /\ result.analysis_successful) => FlagsMatchFields(result)
    /\ \A i \in DOMAIN results :
         results[i].analysis_successful => FlagsMatchFields(results[i])

C10_Witness ==
    /\ pc = "return"
    /\ result.analysis_successful
    /\ result.title_length = 30 /\ result.title_optimal
    /\ result.meta_description_length = 160 /\ result.meta_description_optimal
    /\ result.heading_counts.h1_count = 1 /\ result.h1_optimal
    /\ result.word_count = 300 /\ result.content_length_optimal

\* C11: extract_images counts an image without the alt attribute in
\* images_without_alt and an image whose alt is present but blank after
\* trimming in images_with_empty_alt, every image in at most one of them;
\* the two counts sum to at most total_images, and images_alt_optimization
\* is the remaining images over max(total_images, 1), between 0 and 1.
WithoutAlt(doc) == {i \in DOMAIN doc.images : doc.images[i].alt = <<>>}
EmptyAlt(doc) ==
    {i \in DOMAIN doc.images :
        /\ doc.images[i].alt # <<>>
        /\ doc.images[i].alt[1].len = 0}

C11_ImageCounts ==
    \A k \in DOMAIN runs :
        Len(runs[k].exc) = 0 =>
            LET f == runs[k].fields
                ratio == f.images_alt_optimization
            IN  /\ f.total_images = Len(content.images)
                /\ f.images_without_alt = Cardinality(WithoutAlt(content))
                /\ f.images_with_empty_alt = Cardinality(EmptyAlt(content))
                /\ WithoutAlt(content) \cap EmptyAlt(content) = {}
                /\ f.images_without_alt + f.images_with_empty_alt <= f.total_images
                /\ ratio.den = Max(f.total_images, 1)
                /\ ratio.num = f.total_images - f.images_without_alt
                                   - f.images_with_empty_alt
                /\ 0 <= ratio.num /\ ratio.num <= ratio.den

\* one image without alt, one with a whitespace-only alt: the ratio is 0/2
C11_Witness ==
    /\ Len(runs) >= 1
    /\ Len(runs[1].exc) = 0
    /\ content.images = <<[alt |-> <<>>], [alt |-> <<Text(1, 0)>>]>>
    /\ runs[1].fields.images_without_alt = 1
    /\ runs[1].fields.images_with_empty_alt = 1
    /\ runs[1].fields.images_alt_optimization = [num |-> 0, den |-> 2]

\* C12: the Title, Meta and H1 scores of a scored result are 100 when the
\* field is optimal, else 50 when it exists (a non-empty title, a non-empty
\* description, at least one h1), else 0; the Content score is 100 when the
\* content length is optimal and 50 otherwise, never 0.
ThreeLevels(optimal, exists) ==
    Rat(IF optimal THEN 100 ELSE IF exists THEN 50 ELSE 0, 1)

C12_FieldScores ==
    \A i \in DOMAIN scores_data :
        LET r == scored(results)[i]
            row == scores_data[i]
        IN  /\ row.Title = ThreeLevels(r.title_optimal, r.title_length > 0)
            /\ row["Meta Desc"] = ThreeLevels(r.meta_description_optimal,
                                              r.meta_description_length > 0)
            /\ row.H1 = ThreeLevels(r.h1_optimal, r.heading_counts.h1_count >= 1)
            /\ row.Content = Rat(IF r.content_length_optimal THEN 100 ELSE 50, 1)
            /\ row.Content # Rat(0, 1)

\* no title, no description, three h1 and 50 words score 0, 0, 50 and 50
C12_Witness ==
    /\ pc = "charted"
    /\ results[1].title_length = 0
    /\ results[1].meta_description_length = 0
    /\ results[1].heading_counts.h1_count = 3
    /\ results[1].word_count = 50
    /\ scores_data[1].Title = Rat(0, 1)
    /\ scores_data[1]["Meta Desc"] = Rat(0, 1)
    /\ scores_data[1].H1 = Rat(50, 1)
    /\ scores_data[1].Content = Rat(50, 1)

\* C13: the Images score of a scored result is 100 when the page has no
\* image, although images_alt_optimization is then 0; otherwise it is
\* images_alt_optimization times 100, so a page whose images all lack alt
\* scores 0.
C13_ImagesScore ==
    \A i \in DOMAIN scores_data :
        LET r == scored(results)[i]
            row == scores_data[i]
        IN  /\ r.total_images = 0 =>
                  /\ RatEq(row.Images, Rat(100, 1))
                  /\ RatEq(r.images_alt_optimization, Rat(0, 1))
            /\ r.total_images > 0 =>
                  RatEq(row.Images, RatMul(r.images_alt_optimization, 100))
            /\ (r.total_images > 0 /\ r.images_without_alt = r.total_images) =>
                  RatEq(row.Images, Rat(0, 1))

\* a page without images scores 100 with a ratio of 0
C13_Witness ==
    /\ pc = "charted"
    /\ results[1].total_images = 0
    /\ results[1].images_alt_optimization.num = 0
    /\ RatEq(scores_data[1].Images, Rat(100, 1))

\* C14: each of the seven category scores lies between 0 and 100;
\* Technical is one third of the sum of the three 0-or-100 checks robots,
\* sitemap and canonical, Social one third of the three Open Graph checks;
\* Overall is exactly the sum of the seven divided by 7, so it lies between
\* 0 and 100 too.
InRange(x) == RatLeq(Rat(0, 1), x) /\ RatLeq(x, Rat(100, 1))
Categories == {"Title", "Meta Desc", "H1", "Content", "Technical", "Images", "Social"}
Hundreds(n) == Rat(100 * n, 1)
Count(checks) == Cardinality({i \in DOMAIN checks : checks[i]})

C14_ScoresInRange ==
    \A i \in DOMAIN scores_data :
        LET r == scored(results)[i]
            row == scores_data[i]
            sum == RatSum(<<row.Title, row["Meta Desc"], row.H1, row.Content,
                            row.Technical, row.Images, row.Social>>)
        IN  /\ \A c \in Categories : InRange(row[c])
            /\ RatEq(RatMul(row.Technical, 3),
                     Hundreds(Count(<<r.robots_txt_exists, r.sitemap_xml_exists,
                                      r.canonical_exists>>)))
            /\ RatEq(RatMul(row.Social, 3),
                     Hundreds(Count(<<r.has_og_title, r.has_og_description,
                                      r.has_og_image>>)))
            /\ RatEq(RatMul(row.Overall, 7), sum)
            /\ InRange(row.Overall)

\* robots.txt and a canonical link but no sitemap: Technical is 200/3
C14_Witness ==
    /\ pc = "charted"
    /\ results[1].robots_txt_exists
    /\ ~results[1].sitemap_xml_exists
    /\ results[1].canonical_exists
    /\ RatEq(scores_data[1].Technical, Rat(200, 3))
    /\ RatLeq(Rat(1, 1), scores_data[1].Overall)
    /\ ~RatEq(scores_data[1].Overall, Rat(100, 1))

\* C15: check_robots_and_sitemap probes robots.txt and sitemap.xml at the
\* scheme and host of the page URL, its path discarded; each flag is true
\* exactly when its own probe returned status 200; an error or another
\* status on one probe makes only that flag false, the other probe is still
\* made, and the function never raises.
GetProbes == SelectSeq(probe_log, LAMBDA p : p.method = "GET")
Returned200(p) == Len(p.resp.exc) = 0 /\ p.resp.status_code = 200
SiteFile(url, file) ==
    [scheme |-> url.scheme, netloc |-> url.netloc, path |-> file,
     query |-> "", frag |-> ""]

C15_RobotsAndSitemap ==
    /\ pc \in {"social", "return"} => Len(GetProbes) \in {0, 2}
    /\ pc = "sitemap" =>
          /\ Len(GetProbes) = 1
          /\ GetProbes[1].url = SiteFile(result.url, "/robots.txt")
          /\ robots_exists = Returned200(GetProbes[1])
    /\ Len(GetProbes) = 2 =>
          /\ GetProbes[1].url = SiteFile(result.url, "/robots.txt")
          /\ GetProbes[2].url = SiteFile(result.url, "/sitemap.xml")
          /\ "robots_txt_exists" \in DOMAIN result
          /\ "sitemap_xml_exists" \in DOMAIN result
          /\ result.robots_txt_exists = Returned200(GetProbes[1])
          /\ result.sitemap_xml_exists = Returned200(GetProbes[2])
          /\ "error" \notin DOMAIN result
    /\ pc = "raised" => Len(GetProbes) = 0

\* the robots.txt probe of a page with a path fails in transport, the
\* sitemap.xml probe returns 200
C15_Witness ==
    /\ pc = "return"
    /\ result.url.path = "/page"
    /\ Len(GetProbes) = 2
    /\ Len(GetProbes[1].resp.exc) > 0
    /\ Returned200(GetProbes[2])
    /\ ~result.robots_txt_exists
    /\ result.sitemap_xml_exists

\* C16: check_broken_links probes exactly the first min(len(links), 20)
\* entries of the list it is given, in that list's order, never an entry
\* past index 19, and reports checked_links = min(len(links), 20) whether
\* the probes succeed or fail.
HeadRequests == SelectSeq(requests, LAMBDA r : r.method = "HEAD")
Min(a, b) == IF a <= b THEN a ELSE b

C16_SamplePrefix ==
    /\ Len(HeadRequests) <= Min(Len(links_arg), 20)
    /\ \A k \in DOMAIN HeadRequests : HeadRequests[k].url = links_arg[k]
    /\ pc = "robots" =>
          /\ Len(HeadRequests) = Min(Len(links_arg), 20)
          /\ result.checked_links = Min(Len(links_arg), 20)

\* 21 links, two failing probes: 20 probed and counted, the last one not
C16_Witness ==
    /\ pc = "robots"
    /\ Len(links_arg) = 21
    /\ Len(HeadRequests) = 20
    /\ result.checked_links = 20
    /\ result.broken_links_count = 2
    /\ \A k \in DOMAIN HeadRequests : HeadRequests[k].url # links_arg[21]

\* C17: a sampled link appears in broken_links exactly when its probe
\* returned a status of 400 or more, or failed in transport; an entry made
\* for a status carries 'status_code' and no 'error', an entry made for a
\* transport failure carries 'error' and no 'status_code'; a link whose
\* probe returned a status below 400 never appears.
HeadProbes == SelectSeq(probe_log, LAMBDA p : p.method = "HEAD")
EntriesOf(url) == {j \in DOMAIN broken_links : broken_links[j].url = url}

C17_BrokenIffFailed ==
    /\ \A k \in DOMAIN HeadProbes :
         LET p == HeadProbes[k] IN
         IF Len(p.resp.exc) > 0
         THEN \E j \in EntriesOf(p.url) :
                 DOMAIN broken_links[j] = {"url", "error"}
         ELSE IF p.resp.status_code >= 400
         THEN \E j \in EntriesOf(p.url) :
                 /\ DOMAIN broken_links[j] = {"url", "status_code"}
                 /\ broken_links[j].status_code = p.resp.status_code
         ELSE EntriesOf(p.url) = {}
    /\ \A j \in DOMAIN broken_links :
         \E k \in DOMAIN HeadProbes : HeadProbes[k].url = broken_links[j].url
    /\ "broken_links" \in DOMAIN result =>
         /\ result.broken_links = broken_links
         /\ result.broken_links_count = Len(broken_links)

\* two links probed: status 399 leaves no entry, status 400 leaves one
C17_Witness ==
    /\ pc = "robots"
    /\ Len(HeadProbes) = 2
    /\ Len(HeadProbes[1].resp.exc) = 0
    /\ HeadProbes[1].resp.status_code = 399
    /\ Len(HeadProbes[2].resp.exc) = 0
    /\ HeadProbes[2].resp.status_code = 400
    /\ result.broken_links = <<[url |-> HeadProbes[2].url, status_code |-> 400]>>

\* C18: once fetch_page has reported failure for a URL, no extractor runs
\* and no link, robots or sitemap probe is issued for that URL before its
\* result is returned: the only request of that URL is the page fetch.
FetchFailed ==
    /\ pc \notin {"loop", "fetch", "done", "charted"}
    /\ response # None
    /\ page_data = None
RequestsOf(i) == SelectSeq(requests, LAMBDA r : r.index = i)

C18_FailureSkipsStages ==
    /\ FetchFailed =>
          /\ pc = "return"
          /\ soup = None
          /\ probe_log = <<>>
          /\ links_to_check = <<>>
          /\ DOMAIN result = FailureKeys
          /\ RequestsOf(idx + 1) =
                <<[method |-> "GET", url |-> urls[idx + 1], index |-> idx + 1]>>
    /\ \A i \in DOMAIN results :
          DOMAIN results[i] = FailureKeys =>
              RequestsOf(i) = <<[method |-> "GET", url |-> urls[i], index |-> i]>>

\* the second URL of a batch fails to fetch after the first was analysed
\* in full
C18_Witness ==
    /\ FetchFailed
    /\ idx = 1
    /\ Len(response.exc) = 0
    /\ response.status_code = 500
    /\ results[1].analysis_successful
    /\ Len(RequestsOf(1)) > 1
    /\ Len(RequestsOf(2)) = 1

\* C19: a batch is processed strictly in sequence: no request for the URL
\* at position i+1 is issued before the result for position i has been
\* appended, and within one URL the link probes are issued one at a time
\* in the order of the sampled link list.
C19_Sequential ==
    /\ \A k \in DOMAIN requests :
          /\ requests[k].index <= Len(results) + 1
          /\ \A j \in 1..(k - 1) : requests[j].index <= requests[k].index
    /\ pc \in {"loop", "done", "charted"} =>
          \A k \in DOMAIN requests : requests[k].index <= Len(results)
    /\ pc = "probe" =>
          LET heads == SelectSeq(RequestsOf(idx + 1), LAMBDA r : r.method = "HEAD")
          IN  /\ Len(heads) = probe_i - 1
              /\ Len(heads) = Len(probe_log)
              /\ \A k \in DOMAIN heads : heads[k].url = links_to_check[k]

\* the second URL of a batch has had both its links probed, in list order,
\* after the first URL's result was appended
C19_Witness ==
    /\ pc = "probe"
    /\ idx = 1
    /\ Len(results) = 1
    /\ Len(links_to_check) = 2
    /\ probe_i = 3
    /\ Len(RequestsOf(1)) >= 1
    /\ SelectSeq(RequestsOf(2), LAMBDA r : r.method = "HEAD") =
          <<[method |-> "HEAD", url |-> links_to_check[1], index |-> 2],
            [method |-> "HEAD", url |-> links_to_check[2], index |-> 2]>>

\* C20: broken_links preserves the order of the sampled sequence: the URLs
\* of its entries form a subsequence of the first 20 links of the list
\* given, each sampled position giving at most one entry, whatever mix of
\* status and transport failures occurs.
PositionOf(url) == CHOOSE k \in DOMAIN links_arg : links_arg[k] = url

C20_BrokenLinksOrder ==
    /\ \A j \in DOMAIN broken_links :
          /\ \E k \in DOMAIN links_arg : links_arg[k] = broken_links[j].url
          /\ PositionOf(broken_links[j].url) <= 20
    /\ \A i, j \in DOMAIN broken_links :
          i < j => PositionOf(broken_links[i].url) < PositionOf(broken_links[j].url)
    /\ pc = "robots" => result.broken_links = broken_links

\* of 21 links the 3rd fails in transport and the 20th by status
C20_Witness ==
    /\ pc = "robots"
    /\ Len(links_arg) = 21
    /\ result.broken_links =
          <<[url |-> links_arg[3], error |-> "ConnectionError"],
            [url |-> links_arg[20], status_code |-> 400]>>

\* the resolved URLs of the partitioned anchors, in the order in which the
\* anchors occur in the document
InDocumentOrder(doc, base) ==
    LET idxs == SelectSeq([i \in DOMAIN doc.anchors |-> i],
                          LAMBDA i : i \in Partitioned(doc))
    IN  [k \in DOMAIN idxs |-> Resolved(doc, base, idxs[k])]

\* a sequence without its repeated elements, first occurrences kept
RECURSIVE FirstOccurrences(_)
FirstOccurrences(s) ==
    IF Len(s) = 0 THEN <<>>
    ELSE LET front == FirstOccurrences(SubSeq(s, 1, Len(s) - 1))
             last == s[Len(s)]
         IN  IF last \in Range(front) THEN front ELSE Append(front, last)

\* C21: the links sampled for health checking are the first 20 of the
\* de-duplicated internal links followed by the de-duplicated external
\* links, each in the order in which the anchors occur in the document.
C21_SampleInDocumentOrder ==
    \A k \in DOMAIN runs :
        Len(runs[k].exc) = 0 =>
            LET resolved == InDocumentOrder(content, base_url)
                internal == SelectSeq(resolved,
                                LAMBDA u : u.netloc = base_url.netloc)
                external == SelectSeq(resolved,
                                LAMBDA u : u.netloc # base_url.netloc)
            IN  sample_links(all_links(runs[k].fields)) =
                    Prefix(FirstOccurrences(internal) \o FirstOccurrences(external),
                           20)

\* C22: the extractors are pure: from parse_html until the result is
\* returned the shared parsed document is the tree that was parsed, so
\* every extractor, in whatever order it runs, reads the same tree.
C22_ExtractorsLeaveTreeUnchanged ==
    (pc \in {"probe", "robots", "sitemap", "social", "return"} /\ soup # None)
        => soup = parse_html(page_data.content)

\* C23: a probe outcome affects only its own check.  A step of
\* check_broken_links or of check_robots_and_sitemap keeps every field of
\* the result other than checked_links, broken_links, broken_links_count,
\* robots_txt_exists and sitemap_xml_exists, adds no field besides these and
\* the two probe URLs, which do not depend on the outcome, and never ends
\* the analysis; a result that went through the probes is successful.
ProbeFields == {"checked_links", "broken_links", "broken_links_count",
                "robots_txt_exists", "sitemap_xml_exists"}
ProbeUrlFields == {"robots_txt_url", "sitemap_xml_url"}

ProbeStepFrame ==
    pc \in {"probe", "robots", "sitemap"} =>
        /\ \A k \in DOMAIN result \ ProbeFields :
              k \in DOMAIN result' /\ result'[k] = result[k]
        /\ (DOMAIN result' \ DOMAIN result) \subseteq (ProbeFields \cup ProbeUrlFields)
        /\ \A k \in ProbeUrlFields \cap DOMAIN result' :
              result'[k] = SiteFile(result.url,
                               IF k = "robots_txt_url" THEN "/robots.txt"
                               ELSE "/sitemap.xml")
        /\ pc' \in {"probe", "robots", "sitemap", "social"}

C23_ProbeFrame ==
    /\ [][ProbeStepFrame]_vars
    /\ []((pc = "return" /\ "checked_links" \in DOMAIN result)
            => result.analysis_successful)

\* every probe of a page with two links failed, and the result is successful
C23_Witness ==
    /\ pc = "return"
    /\ result.analysis_successful
    /\ result.checked_links = 2
    /\ result.broken_links_count = 2
    /\ "error" \in DOMAIN result.broken_links[1]
    /\ "status_code" \in DOMAIN result.broken_links[2]
    /\ ~result.robots_txt_exists
    /\ ~result.sitemap_xml_exists
    /\ result.title_length = 30

\* C24: there is no retry: within the analysis of one URL the page is
\* requested at most once, each sampled link is probed exactly once, and
\* robots.txt and sitemap.xml are each requested at most once, whether the
\* operations succeed or fail.
Times(rs, method, url) ==
    Cardinality({k \in DOMAIN rs : rs[k].method = method /\ rs[k].url = url})

C24_NoRetry ==
    /\ \A i \in DOMAIN urls :
          LET rs == RequestsOf(i) IN
          /\ NoDuplicates(rs)
          /\ Times(rs, "GET", urls[i]) <= 1
          /\ Times(rs, "GET", SiteFile(urls[i], "/robots.txt")) <= 1
          /\ Times(rs, "GET", SiteFile(urls[i], "/sitemap.xml")) <= 1
    /\ (pc \in {"robots", "sitemap", "social", "return"}
          /\ "checked_links" \in DOMAIN result) =>
          \A j \in DOMAIN links_to_check :
              Times(RequestsOf(idx + 1), "HEAD", links_to_check[j]) = 1
    /\ \A i \in DOMAIN results :
          results[i].analysis_successful =>
              LET sampled == Prefix(results[i].internal_links
                                      \o results[i].external_links, 20)
              IN  /\ \A j \in DOMAIN sampled :
                        Times(RequestsOf(i), "HEAD", sampled[j]) = 1
                  /\ Len(RequestsOf(i)) = 3 + Len(sampled)

\* the same URL twice in a batch: the first analysis has both link probes
\* and both site probes fail, each issued once; the second fails to fetch
C24_Witness ==
    /\ pc = "done"
    /\ Len(urls) = 2
    /\ urls[1] = urls[2]
    /\ results[1].analysis_successful
    /\ results[1].broken_links_count = 2
    /\ ~results[1].robots_txt_exists
    /\ ~results[1].sitemap_xml_exists
    /\ Len(RequestsOf(1)) = 5
    /\ DOMAIN results[2] = FailureKeys
    /\ Len(RequestsOf(2)) = 1

\* C25: when every network operation returns a response or an error, the
\* analysis of every URL that is started reaches a terminal state, with
\* analysis_successful true (Done) or false (Failed), and analyze_urls
\* eventually returns with one result per URL.
Terminal == pc = "return" /\ result.analysis_successful \in BOOLEAN
Returned ==
    /\ pc = "done"
    /\ Len(results) = Len(urls)
    /\ \A i \in DOMAIN results : results[i].analysis_successful \in BOOLEAN

C25_EventuallyReturns ==
    /\ (pc = "fetch") ~> Terminal
    /\ <>Returned

\* a batch of two has returned, one URL Done and one Failed
C25_Witness ==
    /\ Returned
    /\ Len(urls) = 2
    /\ results[1].analysis_successful
    /\ ~results[2].analysis_successful

\* C26: when the fetch was redirected to another host, analyze_url still
\* resolves relative hrefs, splits internal from external links, derives
\* the robots.txt and sitemap.xml URLs and computes the backlink hints
\* against the scheme and host of the input URL; final_url is the URL the
\* fetch ended at and is only stored.
WasRedirected ==
    /\ pc = "return"
    /\ result.analysis_successful
    /\ result.final_url.netloc # result.url.netloc

AgainstBase(doc, base) ==
    LET resolved == {Resolved(doc, base, i) : i \in Partitioned(doc)}
        mentions == {i \in DOMAIN doc.anchors :
                        /\ doc.anchors[i].attr
                        /\ href_contains(doc.anchors[i], base.netloc)
                        /\ doc.anchors[i].netloc # base.netloc}
    IN  [internal |-> {u \in resolved : u.netloc = base.netloc},
         external |-> {u \in resolved : u.netloc # base.netloc},
         robots |-> SiteFile(base, "/robots.txt"),
         sitemap |-> SiteFile(base, "/sitemap.xml"),
         referring |-> {doc.anchors[i].netloc : i \in mentions}]

C26_RedirectKeepsInputBase ==
    WasRedirected =>
        LET expected == AgainstBase(page_data.content, urls[idx + 1]) IN
        /\ result.url = urls[idx + 1]
        /\ result.final_url = response.url
        /\ Range(result.internal_links) = expected.internal
        /\ Range(result.external_links) = expected.external
        /\ result.robots_txt_url = expected.robots
        /\ result.sitemap_xml_url = expected.sitemap
        /\ Times(requests, "GET", expected.robots) = 1
        /\ Times(requests, "GET", expected.sitemap) = 1
        /\ Range(result.potential_referring_domains) = expected.referring

\* https://site.test/page is redirected to other.test; "/a" is still an
\* internal link of site.test, other.test is external and a referring domain
C26_Witness ==
    /\ WasRedirected
    /\ result.url = PageUrl1
    /\ result.final_url = Url("https", "other.test", "/landing", "", "")
    /\ page_data.content.anchors = <<HrefPathA, HrefOtherRef>>
    /\ result.internal_links = <<Url("https", "site.test", "/a", "", "")>>
    /\ result.external_links = <<Url("https", "other.test", "", "site.test", "")>>
    /\ result.robots_txt_url = Url("https", "site.test", "/robots.txt", "", "")
    /\ result.potential_referring_domains = <<"other.test">>

\* C27: in every successful result broken_links_count = len(broken_links)
\* <= checked_links <= 20, and checked_links <= internal_links_count +
\* external_links_count <= total_links.
CountsOrdered(r) ==
    /\ r.broken_links_count = Len(r.broken_links)
    /\ Len(r.broken_links) <= r.checked_links
    /\ r.checked_links <= 20
    /\ r.checked_links <= r.internal_links_count + r.external_links_count
    /\ r.internal_links_count + r.external_links_count <= r.total_links

Mentioning(doc, host) ==
    {i \in DOMAIN doc.anchors :
        doc.anchors[i].attr /\ href_contains(doc.anchors[i], host)}

C28_ReferringDomains ==
    \A k \in DOMAIN runs :
        Len(runs[k].exc) = 0 =>
            LET f == runs[k].fields
                domains == Range(f.potential_referring_domains)
                host == base_url.netloc
                hosts == {content.anchors[i].netloc : i \in Mentioning(content, host)}
            IN  /\ host \notin domains
                /\ \A d \in domains : d # "" /\ d \in hosts
                /\ f.referring_domains_count = Cardinality(hosts \ {host, ""})

====
